---------------------------- MODULE Spec2Model ----------------------------
(***************************************************************************)
(* A model of KV_Store.py: a two-tier in-memory store (an AVL tree and a   *)
(* dict) in front of gzip-compressed, sorted segment files ("SST files")   *)
(* that carry a sparse index, an 8-byte footer and a Bloom filter.         *)
(*                                                                         *)
(* Keys are the numbers 1..Len(KeyName); key k stands for the string       *)
(* KeyName[k].  KeyName is in ascending lexicographic order, so that the   *)
(* order of the numbers is Python's order of the strings.  Values are     *)
(* positive integers; Python's None is the number None.  The store never   *)
(* inspects or compares a value, so the n-th insert call writes the value  *)
(* n (as the repository's tests do): every write is told from every other. *)
(*                                                                         *)
(* Specifications: Spec (insert and compact on a sound directory), SpecSST *)
(* (the segment manager alone), SpecAVL (the AVL tree alone), SpecFlush    *)
(* (five keys, for runs of distinct keys) and SpecFault (segment files     *)
(* deleted or damaged from outside, writes that fail).                     *)
(***************************************************************************)
EXTENDS Integers, Sequences, FiniteSets, TLC

(***************************************************************************)
(* Bounds of the model.                                                    *)
(***************************************************************************)
MaxInserts == 7      \* insert calls per behaviour
MaxT == 3            \* memory_threshold is drawn from 1..MaxT
MaxSI == 2           \* sparse_interval is drawn from 1..MaxSI
MaxDumps == 2        \* segments written per behaviour of SpecSST
MaxVal == 2          \* values of the records dumped under SpecSST
MaxAVLKeys == 5      \* keys 1..MaxAVLKeys are inserted under SpecAVL
MaxAVLInserts == 6   \* AVLTree.insert calls per behaviour of SpecAVL
MaxFlushT == 2       \* memory_threshold is drawn from 1..MaxFlushT in SpecFlush
MaxFlushInserts == 5 \* insert calls per behaviour of SpecFlush
MaxFaultInserts == 4 \* insert calls per behaviour of SpecFault

(***************************************************************************)
(* Keys.  "k206247" and "key78447148" are false positives of the Bloom     *)
(* filter that holds only "key1" (see MD5Mod).                             *)
(***************************************************************************)
KeyName == << "k206247", "key1", "key78447148" >>

Keys == 1..Len(KeyName)

\* Two more keys, used where a run needs more than three distinct keys.
AllKeyName == KeyName \o << "key8", "key9" >>

AllKeys == 1..Len(AllKeyName)

None == 0

\* What a lookup yields when it ends in an exception instead of a return.
Exception == -1

Max(a, b) == IF a > b THEN a ELSE b

(***************************************************************************)
(* BloomFilter.  bit_array is modelled by the set of the positions that    *)
(* hold a 1.                                                               *)
(***************************************************************************)
BloomSize == 1000

HashCount == 3

\* int(md5((key + str(i)).encode()).hexdigest(), 16) % 1000 for i = 0, 1, 2,
\* computed with hashlib for each string of AllKeyName.
MD5Mod == << <<89, 89, 371>>, <<371, 89, 758>>, <<89, 371, 371>>,
             <<645, 683, 677>>, <<595, 886, 318>> >>

BloomFilter_hashes(key) == [i \in 1..HashCount |-> MD5Mod[key][i] % BloomSize]

BloomFilter_new == {}

\* Mutant: the last of the hash_count positions is not set.
BloomFilter_add_short(bit_array, key) ==
    bit_array \cup {BloomFilter_hashes(key)[i] : i \in 1..(HashCount - 1)}

BloomFilter_add(bit_array, key) ==
    bit_array \cup {BloomFilter_hashes(key)[i] : i \in 1..HashCount}

BloomFilter_contains(bit_array, key) ==
    \A i \in 1..HashCount : BloomFilter_hashes(key)[i] \in bit_array

(***************************************************************************)
(* AVLTree.  A node is a record; None (no node) is Nil.                    *)
(***************************************************************************)
Nil == [leaf |-> TRUE]

AVLNode(key, value) ==
    [key |-> key, value |-> value, height |-> 1, left |-> Nil, right |-> Nil]

AVLTree_height(node) == IF node = Nil THEN 0 ELSE node.height

AVLTree_balance_factor(node) ==
    AVLTree_height(node.left) - AVLTree_height(node.right)

\* Mutant: the height of z is not recomputed after the rotation.
AVLTree_rotate_left_stale(z) ==
    LET y  == z.right
        T2 == y.left
        z1 == [z EXCEPT !.right = T2]
        y1 == [y EXCEPT !.left = z1]
    IN  [y1 EXCEPT !.height =
             1 + Max(AVLTree_height(y1.left), AVLTree_height(y1.right))]

AVLTree_rotate_left(z) ==
    LET y  == z.right
        T2 == y.left
        z1 == [z EXCEPT !.right = T2]
        z2 == [z1 EXCEPT !.height =
                   1 + Max(AVLTree_height(z1.left), AVLTree_height(z1.right))]
        y1 == [y EXCEPT !.left = z2]
    IN  [y1 EXCEPT !.height =
             1 + Max(AVLTree_height(y1.left), AVLTree_height(y1.right))]

AVLTree_rotate_right(z) ==
    LET y  == z.left
        T3 == y.right
        z1 == [z EXCEPT !.left = T3]
        z2 == [z1 EXCEPT !.height =
                   1 + Max(AVLTree_height(z1.left), AVLTree_height(z1.right))]
        y1 == [y EXCEPT !.right = z2]
    IN  [y1 EXCEPT !.height =
             1 + Max(AVLTree_height(y1.left), AVLTree_height(y1.right))]

RECURSIVE AVLTree_insert_node(_, _, _)
AVLTree_insert_node(node, key, value) ==
    IF node = Nil THEN AVLNode(key, value)
    ELSE IF key # node.key
    THEN LET n1 == IF key < node.key
                   THEN [node EXCEPT !.left =
                            AVLTree_insert_node(node.left, key, value)]
                   ELSE [node EXCEPT !.right =
                            AVLTree_insert_node(node.right, key, value)]
             n2 == [n1 EXCEPT !.height =
                       1 + Max(AVLTree_height(n1.left), AVLTree_height(n1.right))]
             balance == AVLTree_balance_factor(n2)
         IN  IF balance > 1 /\ key < n2.left.key
             THEN AVLTree_rotate_right(n2)
             ELSE IF balance < -1 /\ key > n2.right.key
             THEN AVLTree_rotate_left(n2)
             ELSE IF balance > 1 /\ key > n2.left.key
             THEN AVLTree_rotate_right(
                      [n2 EXCEPT !.left = AVLTree_rotate_left(n2.left)])
             ELSE IF balance < -1 /\ key < n2.right.key
             THEN AVLTree_rotate_left(
                      [n2 EXCEPT !.right = AVLTree_rotate_right(n2.right)])
             ELSE n2
    ELSE [node EXCEPT !.value = value]

AVLTree_insert(root, key, value) == AVLTree_insert_node(root, key, value)

RECURSIVE AVLTree_in_order(_)
AVLTree_in_order(node) ==
    IF node = Nil THEN << >>
    ELSE AVLTree_in_order(node.left) \o << <<node.key, node.value>> >>
             \o AVLTree_in_order(node.right)

(***************************************************************************)
(* A Python dict: the sequence of its (key, value) items in insertion      *)
(* order.  Assigning to a key the dict holds keeps the key's place.        *)
(***************************************************************************)
DictHas(d, key) == \E i \in 1..Len(d) : d[i][1] = key

DictGet(d, key) == d[CHOOSE i \in 1..Len(d) : d[i][1] = key][2]

DictSet(d, key, value) ==
    IF DictHas(d, key)
    THEN [i \in 1..Len(d) |-> IF d[i][1] = key THEN <<key, value>> ELSE d[i]]
    ELSE Append(d, <<key, value>>)

\* Python's order of two (key, value) tuples.
TupleLess(a, b) == a[1] < b[1] \/ (a[1] = b[1] /\ a[2] < b[2])

RECURSIVE InsertSorted(_, _)
InsertSorted(s, x) ==
    IF s = << >> THEN << x >>
    ELSE IF TupleLess(x, Head(s)) THEN << x >> \o s
    ELSE << Head(s) >> \o InsertSorted(Tail(s), x)

\* sorted(d.items())
RECURSIVE Sorted(_)
Sorted(items) ==
    IF items = << >> THEN << >>
    ELSE InsertSorted(Sorted(Tail(items)), Head(items))

(***************************************************************************)
(* Segment files.  A file is its uncompressed byte stream, kept in three   *)
(* parts: data, the (key, value) records in the order written; index, the  *)
(* pickled sparse index; footer, the last 8 bytes.  Offsets are byte       *)
(* offsets in that stream: gzip's tell() and seek() count uncompressed     *)
(* bytes.                                                                  *)
(***************************************************************************)
\* len(pickle.dumps((key, value))) for a str key and an int value in 0..255
\* (pickle protocol 4): 19 bytes of framing and opcodes and the key's bytes.
PickleOverhead == 19

PickleLen(record) == PickleOverhead + Len(AllKeyName[record[1]])

RECURSIVE ShiftRight8(_, _)
ShiftRight8(n, j) == IF j = 0 THEN n ELSE ShiftRight8(n \div 256, j - 1)

FooterLen == 8

\* n.to_bytes(8, "big")
ToBytesBig(n) == [i \in 1..FooterLen |-> ShiftRight8(n, FooterLen - i) % 256]

\* int.from_bytes(b, "big")
RECURSIVE FromBytesBig(_)
FromBytesBig(b) ==
    IF b = << >> THEN 0
    ELSE FromBytesBig(SubSeq(b, 1, Len(b) - 1)) * 256 + b[Len(b)]

\* Mutant: the offset is advanced before the index entry is made.
RECURSIVE WriteRecords_late_position(_, _, _, _, _, _)
WriteRecords_late_position(data, i, interval, position, sparse_index, bloom_filter) ==
    IF i >= Len(data)
    THEN [sparse_index |-> sparse_index, bloom_filter |-> bloom_filter,
          tell |-> position]
    ELSE LET record == data[i + 1]
             key    == record[1]
             after  == position + PickleLen(record)
         IN  WriteRecords_late_position(data, i + 1, interval, after,
                 IF i % interval = 0
                 THEN Append(sparse_index, <<key, after>>)
                 ELSE sparse_index,
                 BloomFilter_add(bloom_filter, key))

\* The loop of dump_to_file over enumerate(data), from index i (0-based) on:
\* each record is written, added to the Bloom filter, and indexed when
\* i % sparse_interval = 0.  The result holds f.tell() after the loop.
RECURSIVE WriteRecords(_, _, _, _, _, _)
WriteRecords(data, i, interval, position, sparse_index, bloom_filter) ==
    IF i >= Len(data)
    THEN [sparse_index |-> sparse_index, bloom_filter |-> bloom_filter,
          tell |-> position]
    ELSE LET record == data[i + 1]
             key    == record[1]
         IN  WriteRecords(data, i + 1, interval,
                 position + PickleLen(record),
                 IF i % interval = 0
                 THEN Append(sparse_index, <<key, position>>)
                 ELSE sparse_index,
                 BloomFilter_add(bloom_filter, key))

\* What is found in place of a segment file that was damaged after it was
\* written: bytes that are no gzip stream (gzip raises BadGzipFile), and a
\* gzip stream cut short (gzip raises EOFError).
NotGzip == [bytes |-> "not gzip"]

Truncated == [bytes |-> "truncated gzip"]

\* SparseIndexSST.dump_to_file: mgr is the manager (directory is the content
\* of its directory, file id -> file; writable tells whether gzip.open for
\* writing succeeds; write_errors counts the errors dump_to_file logged).
\* When the write raises, the except clause logs the error and the
\* statement after it still advances file_counter.
SparseIndexSST_dump_to_file(mgr, data) ==
    IF data = << >> THEN mgr
    ELSE IF ~mgr.writable
    THEN [mgr EXCEPT !.write_errors = mgr.write_errors + 1,
                     !.file_counter = mgr.file_counter + 1]
    ELSE LET w == WriteRecords(data, 0, mgr.sparse_interval, 0, << >>,
                               BloomFilter_new)
             index_position == w.tell
             file == [data   |-> data,
                      index  |-> w.sparse_index,
                      footer |-> ToBytesBig(index_position)]
             id == mgr.file_counter
         IN  [mgr EXCEPT
                 !.directory = [j \in DOMAIN mgr.directory \cup {id} |->
                                   IF j = id THEN file ELSE mgr.directory[j]],
                 !.bloom_filters = Append(mgr.bloom_filters, w.bloom_filter),
                 !.file_counter = mgr.file_counter + 1]

\* The byte offset at which record number n (1-based) of the file starts;
\* for n = Len(data) + 1, the offset at which the pickled index starts.
RECURSIVE OffsetOf(_, _)
OffsetOf(data, n) ==
    IF n <= 1 THEN 0 ELSE OffsetOf(data, n - 1) + PickleLen(data[n - 1])

\* bisect.bisect_left(keys, key)
RECURSIVE BisectLoop(_, _, _, _)
BisectLoop(keys, key, lo, hi) ==
    IF lo < hi
    THEN LET mid == (lo + hi) \div 2
         IN  IF keys[mid + 1] < key
             THEN BisectLoop(keys, key, mid + 1, hi)
             ELSE BisectLoop(keys, key, lo, mid)
    ELSE lo

bisect_left(keys, key) == BisectLoop(keys, key, 0, Len(keys))

Miss == [found |-> FALSE, value |-> None]

Hit(value) == [found |-> TRUE, value |-> value]

\* Mutant: the scan stops at the first record whose key is not below the
\* key looked up, and returns its value without comparing for equality.
RECURSIVE ScanRecords_lower_bound(_, _, _, _)
ScanRecords_lower_bound(file, tell, index_position, key) ==
    IF tell < index_position
    THEN IF \E n \in 1..Len(file.data) : OffsetOf(file.data, n) = tell
         THEN LET n == CHOOSE m \in 1..Len(file.data) :
                           OffsetOf(file.data, m) = tell
                  record == file.data[n]
              IN  IF record[1] >= key THEN Hit(record[2])
                  ELSE ScanRecords_lower_bound(file,
                           tell + PickleLen(record), index_position, key)
         ELSE Miss
    ELSE Miss

\* The while loop of SparseIndexSST.get: pickle.load at offset tell, until
\* index_position.  A load at an offset where no record starts fails to
\* unpickle, which get catches: the segment yields nothing.
RECURSIVE ScanRecords(_, _, _, _)
ScanRecords(file, tell, index_position, key) ==
    IF tell < index_position
    THEN IF \E n \in 1..Len(file.data) : OffsetOf(file.data, n) = tell
         THEN LET n == CHOOSE m \in 1..Len(file.data) :
                           OffsetOf(file.data, m) = tell
                  record == file.data[n]
              IN  IF record[1] = key THEN Hit(record[2])
                  ELSE ScanRecords(file, tell + PickleLen(record),
                                   index_position, key)
         ELSE Miss
    ELSE Miss

\* The body of the try block of SparseIndexSST.get for one file.
SegmentLookup(file, key) ==
    LET index_position == FromBytesBig(file.footer)
    IN  IF index_position # OffsetOf(file.data, Len(file.data) + 1)
        THEN Miss   \* no pickled index starts there: UnpicklingError, caught
        ELSE LET sparse_index == file.index
                 keys  == [i \in 1..Len(sparse_index) |-> sparse_index[i][1]]
                 pos   == bisect_left(keys, key)
                 start_position == sparse_index[Max(0, pos - 1) + 1][2]
             IN  ScanRecords(file, start_position, index_position, key)

\* Mutant: the files are consulted from the newest down to file i.
RECURSIVE SparseIndexSST_get_from_newest(_, _, _)
SparseIndexSST_get_from_newest(mgr, i, key) ==
    IF i >= mgr.file_counter THEN None
    ELSE LET later == SparseIndexSST_get_from_newest(mgr, i + 1, key)
         IN  IF later # None THEN later
             ELSE IF ~BloomFilter_contains(mgr.bloom_filters[i + 1], key)
             THEN None
             ELSE IF i \notin DOMAIN mgr.directory THEN None
             ELSE SegmentLookup(mgr.directory[i], key).value

\* SparseIndexSST.get: the files F0 .. F{file_counter-1} in turn, from i on.
\* The except clause catches FileNotFoundError, EOFError and
\* pickle.UnpicklingError; bloom_filters[i] is read outside the try.
RECURSIVE SparseIndexSST_get_from(_, _, _)
SparseIndexSST_get_from(mgr, i, key) ==
    IF i >= mgr.file_counter THEN None
    ELSE IF i >= Len(mgr.bloom_filters)        \* IndexError, not caught
    THEN Exception
    ELSE IF ~BloomFilter_contains(mgr.bloom_filters[i + 1], key)
    THEN SparseIndexSST_get_from(mgr, i + 1, key)
    ELSE IF i \notin DOMAIN mgr.directory      \* FileNotFoundError
    THEN SparseIndexSST_get_from(mgr, i + 1, key)
    ELSE IF mgr.directory[i] = Truncated       \* EOFError
    THEN SparseIndexSST_get_from(mgr, i + 1, key)
    ELSE IF mgr.directory[i] = NotGzip         \* BadGzipFile, not caught
    THEN Exception
    ELSE LET r == SegmentLookup(mgr.directory[i], key)
         IN  IF r.found THEN r.value
             ELSE SparseIndexSST_get_from(mgr, i + 1, key)

SparseIndexSST_get(mgr, key) == SparseIndexSST_get_from(mgr, 0, key)

(***************************************************************************)
(* KeyValueStore.                                                          *)
(***************************************************************************)
VARIABLES
    memory_threshold,   \* KeyValueStore.memory_threshold
    avl_tree,           \* KeyValueStore.avl_tree.root
    red_black_tree,     \* KeyValueStore.red_black_tree, a dict
    item_count,         \* KeyValueStore.item_count
    sst_manager,        \* KeyValueStore.sst_manager and its directory
    log,                \* history: the (key, value) of every insert call
    lastOp,             \* history: the operation that led to this state
    raised,             \* history: that operation ended in an exception
    compacted           \* history: compact_sst_files has been called

vars == << memory_threshold, avl_tree, red_black_tree, item_count,
           sst_manager, log, lastOp, raised, compacted >>

SparseIndexSST_init(sparse_interval) ==
    [directory       |-> << >>,
     sparse_interval |-> sparse_interval,
     file_counter    |-> 0,
     bloom_filters   |-> << >>,
     writable        |-> TRUE,
     write_errors    |-> 0]

\* Mutant: get goes from tier 1 straight to the segments.
KeyValueStore_get_skips_tier2(tree, rbt, mgr, key) ==
    LET items == AVLTree_in_order(tree)
        hits  == {i \in 1..Len(items) : items[i][1] = key}
    IN  IF hits # {}
        THEN items[CHOOSE i \in hits : \A j \in hits : i <= j][2]
        ELSE SparseIndexSST_get(mgr, key)

\* Mutant: get consults tier 2 before tier 1.
KeyValueStore_get_tier2_first(tree, rbt, mgr, key) ==
    LET items == AVLTree_in_order(tree)
        hits  == {i \in 1..Len(items) : items[i][1] = key}
    IN  IF DictHas(rbt, key) THEN DictGet(rbt, key)
        ELSE IF hits # {}
        THEN items[CHOOSE i \in hits : \A j \in hits : i <= j][2]
        ELSE SparseIndexSST_get(mgr, key)

KeyValueStore_get(tree, rbt, mgr, key) ==
    LET items == AVLTree_in_order(tree)
        hits  == {i \in 1..Len(items) : items[i][1] = key}
    IN  IF hits # {}
        THEN items[CHOOSE i \in hits : \A j \in hits : i <= j][2]
        ELSE IF DictHas(rbt, key) THEN DictGet(rbt, key)
        ELSE SparseIndexSST_get(mgr, key)

\* Mutant: the items are dumped in the dict's order, unsorted.
KeyValueStore_dump_unsorted(mgr, rbt) ==
    SparseIndexSST_dump_to_file(mgr, rbt)

\* KeyValueStore.dump_to_file: the manager after the flush of rbt.
KeyValueStore_dump_to_file(mgr, rbt) ==
    SparseIndexSST_dump_to_file(mgr, Sorted(rbt))

\* The inner while loop of compact_sst_files: every record of the file,
\* from offset tell to index_position, is put into all_data.
RECURSIVE ReadAllRecords(_, _, _, _)
ReadAllRecords(file, tell, index_position, all_data) ==
    IF tell < index_position
         /\ \E n \in 1..Len(file.data) : OffsetOf(file.data, n) = tell
    THEN LET n == CHOOSE m \in 1..Len(file.data) :
                      OffsetOf(file.data, m) = tell
             record == file.data[n]
         IN  ReadAllRecords(file, tell + PickleLen(record), index_position,
                            DictSet(all_data, record[1], record[2]))
    ELSE all_data

\* The for loop of compact_sst_files over range(file_counter), from i on:
\* the records read so far and the directory after the removals.  The
\* except clause catches FileNotFoundError only: at a file gzip cannot
\* read the loop ends in an exception (raised), the files before it
\* already removed.
RECURSIVE CompactLoop(_, _, _, _)
CompactLoop(directory, i, file_counter, all_data) ==
    IF i >= file_counter
    THEN [all_data |-> all_data, directory |-> directory, raised |-> FALSE]
    ELSE IF i \notin DOMAIN directory      \* FileNotFoundError: continue
    THEN CompactLoop(directory, i + 1, file_counter, all_data)
    ELSE IF directory[i] \in {NotGzip, Truncated}
    THEN [all_data |-> all_data, directory |-> directory, raised |-> TRUE]
    ELSE LET file == directory[i]
             index_position == FromBytesBig(file.footer)
         IN  CompactLoop([j \in DOMAIN directory \ {i} |-> directory[j]],
                 i + 1, file_counter,
                 ReadAllRecords(file, 0, index_position, all_data))

\* Mutant: file_counter is not reset before the merged segment is written.
KeyValueStore_compact_keeps_counter(mgr) ==
    LET r == CompactLoop(mgr.directory, 0, mgr.file_counter, << >>)
    IN  SparseIndexSST_dump_to_file(
            [mgr EXCEPT !.directory = r.directory,
                        !.bloom_filters = << >>],
            Sorted(r.all_data))

\* Mutant: the Bloom filters of the removed files are kept.
KeyValueStore_compact_keeps_blooms(mgr) ==
    LET r == CompactLoop(mgr.directory, 0, mgr.file_counter, << >>)
    IN  SparseIndexSST_dump_to_file(
            [mgr EXCEPT !.directory = r.directory,
                        !.file_counter = 0],
            Sorted(r.all_data))

\* KeyValueStore.compact_sst_files: the manager after the compaction.  An
\* exception of the read loop ends the call before the reset and the write.
KeyValueStore_compact_sst_files(mgr) ==
    LET r == CompactLoop(mgr.directory, 0, mgr.file_counter, << >>)
    IN  IF r.raised
        THEN [mgr EXCEPT !.directory = r.directory]
        ELSE SparseIndexSST_dump_to_file(
                 [mgr EXCEPT !.directory = r.directory,
                             !.file_counter = 0,
                             !.bloom_filters = << >>],
                 Sorted(r.all_data))

\* compact_sst_files ends in an exception.
KeyValueStore_compact_raises(mgr) ==
    CompactLoop(mgr.directory, 0, mgr.file_counter, << >>).raised

Init ==
    /\ memory_threshold \in 1..MaxT
    /\ avl_tree = Nil
    /\ red_black_tree = << >>
    /\ item_count = 0
    /\ \E sparse_interval \in 1..MaxSI :
           sst_manager = SparseIndexSST_init(sparse_interval)
    /\ log = << >>
    /\ lastOp = "init"
    /\ raised = FALSE
    /\ compacted = FALSE

\* Mutant: one call more than memory_threshold goes to tier 1.
Insert_late_threshold(key, value) ==
    /\ Len(log) < MaxInserts
    /\ IF item_count <= memory_threshold
       THEN /\ avl_tree' = AVLTree_insert(avl_tree, key, value)
            /\ UNCHANGED << red_black_tree, sst_manager >>
       ELSE LET rbt == DictSet(red_black_tree, key, value)
            IN  /\ UNCHANGED avl_tree
                /\ IF Len(rbt) >= memory_threshold
                   THEN /\ sst_manager' =
                               KeyValueStore_dump_to_file(sst_manager, rbt)
                        /\ red_black_tree' = << >>
                   ELSE /\ red_black_tree' = rbt
                        /\ UNCHANGED sst_manager
    /\ item_count' = item_count + 1
    /\ log' = Append(log, <<key, value>>)
    /\ lastOp' = "insert"
    /\ raised' = FALSE
    /\ UNCHANGED << memory_threshold, compacted >>

\* Mutant: the flush waits until tier 2 holds more than memory_threshold
\* keys.
Insert_flush_late(key, value) ==
    /\ Len(log) < MaxInserts
    /\ IF item_count < memory_threshold
       THEN /\ avl_tree' = AVLTree_insert(avl_tree, key, value)
            /\ UNCHANGED << red_black_tree, sst_manager >>
       ELSE LET rbt == DictSet(red_black_tree, key, value)
            IN  /\ UNCHANGED avl_tree
                /\ IF Len(rbt) > memory_threshold
                   THEN /\ sst_manager' =
                               KeyValueStore_dump_to_file(sst_manager, rbt)
                        /\ red_black_tree' = << >>
                   ELSE /\ red_black_tree' = rbt
                        /\ UNCHANGED sst_manager
    /\ item_count' = item_count + 1
    /\ log' = Append(log, <<key, value>>)
    /\ lastOp' = "insert"
    /\ raised' = FALSE
    /\ UNCHANGED << memory_threshold, compacted >>

\* KeyValueStore.insert
Insert(key, value) ==
    /\ Len(log) < MaxInserts
    /\ IF item_count < memory_threshold
       THEN /\ avl_tree' = AVLTree_insert(avl_tree, key, value)
            /\ UNCHANGED << red_black_tree, sst_manager >>
       ELSE LET rbt == DictSet(red_black_tree, key, value)
            IN  /\ UNCHANGED avl_tree
                /\ IF Len(rbt) >= memory_threshold
                   THEN /\ sst_manager' =
                               KeyValueStore_dump_to_file(sst_manager, rbt)
                        /\ red_black_tree' = << >>
                   ELSE /\ red_black_tree' = rbt
                        /\ UNCHANGED sst_manager
    /\ item_count' = item_count + 1
    /\ log' = Append(log, <<key, value>>)
    /\ lastOp' = "insert"
    /\ raised' = FALSE
    /\ UNCHANGED << memory_threshold, compacted >>

\* Mutant: compaction first flushes tier 2 into a segment.
Compact_flushes_tier2 ==
    /\ sst_manager' = KeyValueStore_compact_sst_files(
                          KeyValueStore_dump_to_file(sst_manager,
                                                     red_black_tree))
    /\ red_black_tree' = << >>
    /\ lastOp' = "compact"
    /\ raised' = FALSE
    /\ compacted' = TRUE
    /\ UNCHANGED << memory_threshold, avl_tree, item_count, log >>

\* KeyValueStore.compact_sst_files
Compact ==
    /\ sst_manager' = KeyValueStore_compact_sst_files(sst_manager)
    /\ lastOp' = "compact"
    /\ raised' = KeyValueStore_compact_raises(sst_manager)
    /\ compacted' = TRUE
    /\ UNCHANGED << memory_threshold, avl_tree, red_black_tree, item_count,
                    log >>

Next ==
    \/ \E key \in Keys : Insert(key, Len(log) + 1)
    \/ Compact

Spec == Init /\ [][Next]_vars

\* What get(key) returns in the current state.
Get(key) == KeyValueStore_get(avl_tree, red_black_tree, sst_manager, key)

(***************************************************************************)
(* The segment manager on its own: sorted batches handed straight to       *)
(* SparseIndexSST.dump_to_file.                                            *)
(***************************************************************************)
\* The pairs (k, f[k]) for k in K, in ascending order of k.
RECURSIVE AscendingPairs(_, _)
AscendingPairs(K, f) ==
    IF K = {} THEN << >>
    ELSE LET k == CHOOSE x \in K : \A y \in K : x <= y
         IN  << <<k, f[k]>> >> \o AscendingPairs(K \ {k}, f)

\* Every non-empty sequence of pairs with strictly ascending keys.
AscendingInputs ==
    UNION { {AscendingPairs(K, f) : f \in [K -> 1..MaxVal]} :
                K \in (SUBSET Keys) \ {{}} }

DumpSegment(data) ==
    /\ sst_manager.file_counter < MaxDumps
    /\ sst_manager' = SparseIndexSST_dump_to_file(sst_manager, data)
    /\ lastOp' = "dump"
    /\ UNCHANGED << memory_threshold, avl_tree, red_black_tree, item_count,
                    log, raised, compacted >>

\* A manager with an empty directory; the store around it is not used.
InitSST ==
    /\ memory_threshold = 1
    /\ avl_tree = Nil
    /\ red_black_tree = << >>
    /\ item_count = 0
    /\ \E sparse_interval \in 1..MaxSI :
           sst_manager = SparseIndexSST_init(sparse_interval)
    /\ log = << >>
    /\ lastOp = "init"
    /\ raised = FALSE
    /\ compacted = FALSE

NextSST == \E data \in AscendingInputs : DumpSegment(data)

SpecSST == InitSST /\ [][NextSST]_vars

(***************************************************************************)
(* The store with five keys to insert, so that runs of pairwise distinct   *)
(* keys fill tier 1 and then flush tier 2 more than once.                  *)
(***************************************************************************)
InitFlush ==
    /\ memory_threshold \in 1..MaxFlushT
    /\ avl_tree = Nil
    /\ red_black_tree = << >>
    /\ item_count = 0
    /\ sst_manager = SparseIndexSST_init(1)
    /\ log = << >>
    /\ lastOp = "init"
    /\ raised = FALSE
    /\ compacted = FALSE

FlushInsert(key) ==
    /\ Len(log) < MaxFlushInserts
    /\ Insert(key, Len(log) + 1)

NextFlush ==
    \/ \E key \in AllKeys : FlushInsert(key)
    \/ Compact

SpecFlush == InitFlush /\ [][NextFlush]_vars

(***************************************************************************)
(* The store on a directory that fails: between the calls a segment file   *)
(* is deleted, overwritten with bytes that are no gzip stream, or cut      *)
(* short, and the directory stops or resumes accepting new files.          *)
(***************************************************************************)
FaultInsert(key) ==
    /\ Len(log) < MaxFaultInserts
    /\ Insert(key, Len(log) + 1)

\* os.remove of F{i}.sst from outside.
RemoveFile(i) ==
    /\ i \in DOMAIN sst_manager.directory
    /\ sst_manager' =
           [sst_manager EXCEPT !.directory =
               [j \in DOMAIN sst_manager.directory \ {i} |->
                    sst_manager.directory[j]]]
    /\ lastOp' = "fault"
    /\ raised' = FALSE
    /\ UNCHANGED << memory_threshold, avl_tree, red_black_tree, item_count,
                    log, compacted >>

\* F{i}.sst is overwritten from outside with damaged content.
DamageFile(i, content) ==
    /\ i \in DOMAIN sst_manager.directory
    /\ sst_manager.directory[i] # content
    /\ sst_manager' = [sst_manager EXCEPT !.directory[i] = content]
    /\ lastOp' = "fault"
    /\ raised' = FALSE
    /\ UNCHANGED << memory_threshold, avl_tree, red_black_tree, item_count,
                    log, compacted >>

\* The directory stops (or resumes) accepting new files.
SetWritable(writable) ==
    /\ sst_manager.writable # writable
    /\ sst_manager' = [sst_manager EXCEPT !.writable = writable]
    /\ lastOp' = "fault"
    /\ raised' = FALSE
    /\ UNCHANGED << memory_threshold, avl_tree, red_black_tree, item_count,
                    log, compacted >>

NextFault ==
    \/ \E key \in Keys : FaultInsert(key)
    \/ Compact
    \/ \E i \in 0..MaxFaultInserts : RemoveFile(i)
    \/ \E i \in 0..MaxFaultInserts : DamageFile(i, NotGzip)
    \/ \E i \in 0..MaxFaultInserts : DamageFile(i, Truncated)
    \/ \E writable \in BOOLEAN : SetWritable(writable)

SpecFault == InitFlush /\ [][NextFault]_vars

(***************************************************************************)
(* The AVL tree on its own: AVLTree.insert called with keys in any order,  *)
(* repeated keys included.  The tree compares keys and nothing else, so    *)
(* the keys are the numbers 1..MaxAVLKeys.                                 *)
(***************************************************************************)
AVLKeys == 1..MaxAVLKeys

TreeInsert(key) ==
    /\ Len(log) < MaxAVLInserts
    /\ avl_tree' = AVLTree_insert(avl_tree, key, Len(log) + 1)
    /\ log' = Append(log, <<key, Len(log) + 1>>)
    /\ lastOp' = "tree_insert"
    /\ UNCHANGED << memory_threshold, red_black_tree, item_count,
                    sst_manager, raised, compacted >>

InitAVL ==
    /\ memory_threshold = 1
    /\ avl_tree = Nil
    /\ red_black_tree = << >>
    /\ item_count = 0
    /\ sst_manager = SparseIndexSST_init(1)
    /\ log = << >>
    /\ lastOp = "init"
    /\ raised = FALSE
    /\ compacted = FALSE

NextAVL == \E key \in AVLKeys : TreeInsert(key)

SpecAVL == InitAVL /\ [][NextAVL]_vars

\* The height of the subtree at node, counted from the tree itself.
RECURSIVE TrueHeight(_)
TrueHeight(node) ==
    IF node = Nil THEN 0
    ELSE 1 + Max(TrueHeight(node.left), TrueHeight(node.right))

\* Every node of the subtree stores its true height and has a balance
\* factor in {-1, 0, 1}.
RECURSIVE AVLInvariant(_)
AVLInvariant(node) ==
    \/ node = Nil
    \/ /\ node.height = TrueHeight(node)
       /\ AVLTree_balance_factor(node) \in {-1, 0, 1}
       /\ TrueHeight(node.left) - TrueHeight(node.right) \in {-1, 0, 1}
       /\ AVLInvariant(node.left)
       /\ AVLInvariant(node.right)

(***************************************************************************)
(* History read from log.                                                  *)
(***************************************************************************)
Inserted(key) == \E i \in 1..Len(log) : log[i][1] = key

LastValue(key) ==
    log[CHOOSE i \in 1..Len(log) :
            /\ log[i][1] = key
            /\ \A j \in 1..Len(log) : log[j][1] = key => j <= i][2]

DistinctKeys ==
    \A i, j \in 1..Len(log) : i # j => log[i][1] # log[j][1]

Directory == sst_manager.directory

SegmentKeys(file) == {file.data[n][1] : n \in 1..Len(file.data)}

(***************************************************************************)
(* Properties.                                                             *)
(***************************************************************************)

\* C1: when the insert calls made so far had pairwise distinct keys, then
\* (whatever compactions happened in between, whatever the threshold) get
\* returns for every inserted key the value inserted for it.
C1_DistinctKeysReadBack ==
    DistinctKeys =>
        \A i \in 1..Len(log) : Get(log[i][1]) = log[i][2]

\* C1 witness: three distinct keys, one in tier 1 and two in the single
\* segment a compaction merged from two flushed segments.
C1_Witness ==
    /\ DistinctKeys
    /\ Len(log) = 3
    /\ lastOp = "compact"
    /\ memory_threshold = 1
    /\ DOMAIN Directory = {0}
    /\ Len(Directory[0].data) = 2

\* C2 (as claimed): in every state, get returns for every key inserted so
\* far the value of the latest insert of that key.
C2_InsertVisible ==
    \A key \in Keys : Inserted(key) => Get(key) = LastValue(key)

\* C3: get returns None for every key that was never inserted.
C3_AbsentKeyNone ==
    \A key \in Keys : ~Inserted(key) => Get(key) = None

\* C3 witness: two keys that were never inserted are both reported present
\* by the Bloom filter of a segment, one sorting before the segment's first
\* key and one after its last key.
C3_Witness ==
    \E i \in DOMAIN Directory, before, after \in Keys :
        /\ ~Inserted(before) /\ ~Inserted(after)
        /\ BloomFilter_contains(sst_manager.bloom_filters[i + 1], before)
        /\ BloomFilter_contains(sst_manager.bloom_filters[i + 1], after)
        /\ \A k \in SegmentKeys(Directory[i]) : before < k /\ k < after

\* C4 (as claimed): after any compact the directory holds exactly the file
\* F0.sst and file_counter is 1.
C4_CompactLeavesOneFile ==
    lastOp = "compact" =>
        DOMAIN Directory = {0} /\ sst_manager.file_counter = 1

\* C4 (amended): a compact step from a state with at least one segment file
\* leaves exactly F0.sst and file_counter 1; a compact step from a state
\* with no segment file leaves the directory empty and file_counter 0.
C4_CompactOneFileIfAny ==
    [][lastOp' = "compact" =>
          IF DOMAIN Directory # {}
          THEN DOMAIN Directory' = {0} /\ sst_manager'.file_counter = 1
          ELSE DOMAIN Directory' = {} /\ sst_manager'.file_counter = 0]_vars

\* C4 witness: after a compaction, F0.sst holds three records (merged from
\* more than one segment of a store with threshold 1).
C4_Witness ==
    /\ lastOp = "compact"
    /\ memory_threshold = 1
    /\ DOMAIN Directory = {0}
    /\ Len(Directory[0].data) = 3

\* C5 (as claimed): a compact step does not change what get returns for
\* any key.
C5_CompactPreservesGet ==
    [][lastOp' = "compact" => \A key \in Keys : Get(key)' = Get(key)]_vars

\* C6: a compact step leaves tier 1, tier 2 and item_count unchanged.
C6_CompactLeavesTiers ==
    [][lastOp' = "compact" =>
          UNCHANGED << avl_tree, red_black_tree, item_count >>]_vars

\* C6 witness: a compaction has just run in a store whose tier 1 and tier 2
\* both hold items and which has a segment.
C6_Witness ==
    /\ lastOp = "compact"
    /\ avl_tree # Nil
    /\ red_black_tree # << >>
    /\ DOMAIN Directory = {0}

\* C7: in every reachable state, compacting twice gives the same manager
\* (segment files and their records, file_counter, Bloom filters) as
\* compacting once.
C7_CompactIdempotent ==
    LET once == KeyValueStore_compact_sst_files(sst_manager)
    IN  KeyValueStore_compact_sst_files(once) = once

\* C7 witness: a state with two segment files holding the same key, which
\* the first compaction merges.
C7_Witness ==
    /\ DOMAIN Directory = {0, 1}
    /\ SegmentKeys(Directory[0]) \cap SegmentKeys(Directory[1]) # {}
    /\ Len(sst_manager.bloom_filters) = 2

\* C8: for every segment id i below file_counter, the Bloom filter
\* bloom_filters[i] reports every key stored in F{i}.sst as present.
C8_BloomHoldsSegmentKeys ==
    \A i \in 0..(sst_manager.file_counter - 1) :
        i \in DOMAIN Directory =>
            \A key \in SegmentKeys(Directory[i]) :
                BloomFilter_contains(sst_manager.bloom_filters[i + 1], key)

\* C8 witness: F0.sst was written by a compaction and F1.sst by a later
\* flush, and the Bloom filter of F1 does not hold a key of F0.
C8_Witness ==
    /\ DOMAIN Directory = {0, 1}
    /\ Len(Directory[0].data) = 2
    /\ \E key \in SegmentKeys(Directory[0]) :
           ~BloomFilter_contains(sst_manager.bloom_filters[2], key)

\* C9: the records of every segment file are in strictly ascending key
\* order (so no key appears twice in a file).
C9_SegmentsAscending ==
    \A i \in DOMAIN Directory :
        \A n \in 1..(Len(Directory[i].data) - 1) :
            Directory[i].data[n][1] < Directory[i].data[n + 1][1]

\* C9 witness: tier 2 received two keys in descending order and was then
\* flushed into F0.sst.
C9_Witness ==
    /\ memory_threshold = 2
    /\ Len(log) = 4
    /\ log[3][1] > log[4][1]
    /\ lastOp = "insert"
    /\ DOMAIN Directory = {0}
    /\ Len(Directory[0].data) = 2

\* C10: for every segment written by dump_to_file from a non-empty batch
\* with strictly ascending keys, the reader's lookup in that file returns,
\* for every key of the batch, the value paired with it.
C10_SegmentRoundTrip ==
    \A i \in DOMAIN Directory :
        \A n \in 1..Len(Directory[i].data) :
            SegmentLookup(Directory[i], Directory[i].data[n][1])
                = Hit(Directory[i].data[n][2])

\* C10 witness: with sparse_interval 2, one segment of three records (the
\* first and third keys are index entries, the second is not) and one of
\* two records (the second key comes after the last index entry).
C10_Witness ==
    /\ lastOp = "dump"
    /\ sst_manager.sparse_interval = 2
    /\ \E i, j \in DOMAIN Directory :
           /\ Len(Directory[i].data) = 3 /\ Len(Directory[i].index) = 2
           /\ Len(Directory[j].data) = 2 /\ Len(Directory[j].index) = 1

\* C11: after every AVLTree.insert, for every sequence of inserted keys,
\* every node's balance factor is in {-1, 0, 1} and every node's stored
\* height is its true height.
C11_AVLBalanced == AVLInvariant(avl_tree)

\* C11 witness: the keys 1, 2, 3, 4, 5 inserted in ascending order (a left
\* rotation at the root and one below the root), then key 3 again.
C11_Witness ==
    /\ lastOp = "tree_insert"
    /\ Len(log) = 6
    /\ [i \in 1..6 |-> log[i][1]] = <<1, 2, 3, 4, 5, 3>>
    /\ TrueHeight(avl_tree) = 3

\* The insert calls that were among the first memory_threshold calls.
Tier1Calls == {i \in 1..Len(log) : i <= memory_threshold}

\* The value written by the last of the first memory_threshold calls that
\* inserted key.
Tier1Value(key) ==
    LET calls == {i \in Tier1Calls : log[i][1] = key}
    IN  log[CHOOSE i \in calls : \A j \in calls : j <= i][2]

\* C16: for a key inserted by one of the first memory_threshold insert
\* calls, get returns the value written by the last of those calls that
\* inserted it, whatever was inserted or compacted afterwards.
C16_Tier1Shadows ==
    \A k \in Keys :
        (\E i \in Tier1Calls : log[i][1] = k) => Get(k) = Tier1Value(k)

\* C16 witness: a key inserted twice within the first memory_threshold
\* calls and again later, the later value sitting in a segment, so that
\* get returns a value other than the one last inserted.
C16_Witness ==
    \E k \in Keys :
        /\ Cardinality({i \in Tier1Calls : log[i][1] = k}) = 2
        /\ \E i \in 1..Len(log) : i > memory_threshold /\ log[i][1] = k
        /\ \E f \in DOMAIN Directory : k \in SegmentKeys(Directory[f])
        /\ Get(k) = Tier1Value(k)
        /\ Get(k) # LastValue(k)

\* The set of (key, value) pairs tier 1 holds.
Tier1Items ==
    LET items == AVLTree_in_order(avl_tree)
    IN  {items[i] : i \in 1..Len(items)}

\* The (key, value) the step's insert call was made with.
LastCall == log[Len(log)]

\* C17: item_count is the number of insert calls made and never decreases;
\* an insert call among the first memory_threshold calls writes tier 1 (and
\* nothing else), every later insert call leaves tier 1 unchanged and puts
\* its pair into tier 2 or, on a flush, into the segment just written.
C17_TierRouting ==
    [][ /\ item_count = Len(log)
        /\ item_count' = Len(log')
        /\ item_count' >= item_count
        /\ Len(log') = Len(log) + 1 =>
              IF Len(log') <= memory_threshold
              THEN /\ LastCall' \in Tier1Items'
                   /\ avl_tree' = AVLTree_insert(avl_tree, LastCall'[1],
                                                 LastCall'[2])
                   /\ UNCHANGED << red_black_tree, sst_manager >>
              ELSE /\ UNCHANGED avl_tree
                   /\ \/ /\ DictHas(red_black_tree', LastCall'[1])
                         /\ DictGet(red_black_tree', LastCall'[1])
                                = LastCall'[2]
                         /\ UNCHANGED sst_manager
                      \/ /\ red_black_tree' = << >>
                         /\ sst_manager'.file_counter
                                = sst_manager.file_counter + 1
                         /\ \E n \in 1..Len(Directory'[sst_manager.file_counter].data) :
                                Directory'[sst_manager.file_counter].data[n]
                                    = LastCall'
      ]_vars

\* C17 witness: more than memory_threshold calls were made, tier 1 holds
\* what the first memory_threshold calls wrote, tier 2 and a segment hold
\* later calls, and the last call's key is also a tier-1 key.
C17_Witness ==
    /\ lastOp = "insert"
    /\ memory_threshold = 2
    /\ item_count = 6
    /\ Tier1Items = {<<log[1][1], 1>>, <<log[2][1], 2>>}
    /\ red_black_tree # << >>
    /\ sst_manager.file_counter >= 1
    /\ \E i \in Tier1Calls : log[i][1] = LastCall[1]

\* The value stored under key in a segment file that holds the key.
SegmentValue(file, key) ==
    file.data[CHOOSE n \in 1..Len(file.data) : file.data[n][1] = key][2]

\* C18: the segment manager's lookup returns the value stored in the
\* lowest-numbered segment that contains the key, and reports the key
\* absent (None) exactly when no segment contains it.
C18_LowestSegmentWins ==
    \A k \in Keys :
        LET holders == {f \in DOMAIN Directory :
                            k \in SegmentKeys(Directory[f])}
        IN  IF holders = {}
            THEN SparseIndexSST_get(sst_manager, k) = None
            ELSE SparseIndexSST_get(sst_manager, k) =
                     SegmentValue(Directory[CHOOSE f \in holders :
                                      \A g \in holders : f <= g], k)

\* C18 witness: segments 0 and 1 hold the same key with different values,
\* the lookup returns the one of segment 0, and another key is in no
\* segment.
C18_Witness ==
    /\ {0, 1} \subseteq DOMAIN Directory
    /\ \E k \in Keys :
           /\ k \in SegmentKeys(Directory[0])
           /\ k \in SegmentKeys(Directory[1])
           /\ SegmentValue(Directory[0], k) # SegmentValue(Directory[1], k)
           /\ SparseIndexSST_get(sst_manager, k)
                  = SegmentValue(Directory[0], k)
    /\ \E k \in Keys :
           /\ \A f \in DOMAIN Directory : k \notin SegmentKeys(Directory[f])
           /\ SparseIndexSST_get(sst_manager, k) = None

\* The number of distinct keys tier 2 holds (a dict: one entry per key).
Tier2Keys == {red_black_tree[n][1] : n \in 1..Len(red_black_tree)}

\* The step is an insert call that wrote a new segment file.
Flushed ==
    /\ lastOp' = "insert"
    /\ Len(log') = Len(log) + 1
    /\ sst_manager.file_counter \in DOMAIN Directory' \ DOMAIN Directory

\* C19: tier 2 always holds fewer than memory_threshold distinct keys; an
\* insert flushes exactly when it brings tier 2 to memory_threshold distinct
\* keys, and the flush writes a segment of exactly memory_threshold records,
\* empties tier 2 and adds 1 to file_counter; after n insert calls with
\* pairwise distinct keys and no compaction there are exactly
\* floor(max(0, n - memory_threshold) / memory_threshold) segments.
C19_FlushThreshold ==
    [][ /\ Cardinality(Tier2Keys) < memory_threshold
        /\ Cardinality(Tier2Keys') < memory_threshold
        /\ Flushed <=>
              /\ Len(log') = Len(log) + 1
              /\ Len(log) >= memory_threshold
              /\ Cardinality(Tier2Keys \cup {LastCall'[1]})
                     = memory_threshold
        /\ Flushed =>
              /\ Len(Directory'[sst_manager.file_counter].data)
                     = memory_threshold
              /\ red_black_tree' = << >>
              /\ sst_manager'.file_counter = sst_manager.file_counter + 1
        /\ (DistinctKeys' /\ ~compacted') =>
              /\ Cardinality(DOMAIN Directory')
                     = Max(0, Len(log') - memory_threshold)
                           \div memory_threshold
              /\ sst_manager'.file_counter = Cardinality(DOMAIN Directory')
      ]_vars

\* C19 witness: memory_threshold is 2, five pairwise distinct keys were
\* inserted without a compaction, the last flush wrote the one segment of 2
\* records, and the fifth key waits in tier 2.
C19_Witness ==
    /\ memory_threshold = 2
    /\ Len(log) = 5
    /\ DistinctKeys
    /\ ~compacted
    /\ DOMAIN Directory = {0}
    /\ Len(Directory[0].data) = 2
    /\ Cardinality(Tier2Keys) = 1

\* C20: an insert call leaves what get returns for every other key as it
\* was before the call.
C20_InsertFrame ==
    [][ (lastOp' = "insert" /\ Len(log') = Len(log) + 1) =>
            \A k \in Keys \ {LastCall'[1]} : Get(k)' = Get(k) ]_vars

\* C12: get never ends in an exception because of a segment file that is
\* missing, cut short or not a gzip stream; it returns a value or None.
\* (Stated for the states in which every segment id has its Bloom filter.)
C12_GetNeverRaises ==
    Len(sst_manager.bloom_filters) = sst_manager.file_counter =>
        \A k \in Keys : Get(k) # Exception

\* The file is a segment as dump_to_file wrote it.
IsSegment(file) == file \notin {NotGzip, Truncated}

\* C13: a compact call that meets a missing, cut-short or corrupt source
\* segment does not raise, folds the records of every readable segment into
\* the merged segment F0.sst, and resets file_counter and the Bloom filters
\* to those of the one merged segment.
C13_CompactSkipsUnreadable ==
    [][ (lastOp' = "compact" /\ sst_manager.writable) =>
            /\ ~raised'
            /\ DOMAIN Directory' \subseteq {0}
            /\ sst_manager'.file_counter = Cardinality(DOMAIN Directory')
            /\ Len(sst_manager'.bloom_filters) = sst_manager'.file_counter
            /\ \A f \in DOMAIN Directory :
                   IsSegment(Directory[f]) =>
                       SegmentKeys(Directory[f])
                           \subseteq SegmentKeys(Directory'[0]) ]_vars

\* C14: an insert or compact call during which the write of a segment file
\* failed ends in an exception.
C14_WriteErrorSurfaced ==
    [][ sst_manager'.write_errors > sst_manager.write_errors =>
            raised' ]_vars

\* C15: in every reachable state there are as many Bloom filters as
\* file_counter says there are segments.
C15_BloomsParallel ==
    Len(sst_manager.bloom_filters) = sst_manager.file_counter

===========================================================================
